---- MODULE Spec2Model ----
\* Model of scripts/check_en_differences.py: extraction of the string
\* catalogs, the comparison of a locale against the reference strings, the
\* optional write-back of case fixes, and the files the run leaves on disk.
\* Strings are sequences of one-character strings, so that str.lower,
\* str.strip, str.split, str.endswith and re.sub are computed, not assumed.
EXTENDS Integers, Sequences, FiniteSets, TLC

\* ---------------------------------------------------------------- characters

LowerLetters ==
  << "a","b","c","d","e","f","g","h","i","j","k","l","m",
     "n","o","p","q","r","s","t","u","v","w","x","y","z" >>

UpperLetters ==
  << "A","B","C","D","E","F","G","H","I","J","K","L","M",
     "N","O","P","Q","R","S","T","U","V","W","X","Y","Z" >>

Digits == {"0","1","2","3","4","5","6","7","8","9"}

Range(s) == {s[i] : i \in 1..Len(s)}

\* str.isspace for the characters of the model
WhiteSpace == {" ", "\n", "\t"}

\* the characters the regular expression class \w matches
WordChars == Range(LowerLetters) \cup Range(UpperLetters) \cup Digits \cup {"_"}

\* str.lower on one character
LowerChar(c) ==
  IF c \in Range(UpperLetters)
  THEN LowerLetters[CHOOSE i \in 1..Len(UpperLetters) : UpperLetters[i] = c]
  ELSE c

\* str.lower
Lower(s) == [i \in 1..Len(s) |-> LowerChar(s[i])]

\* ------------------------------------------------------------ str operations

\* s.endswith(suffix)
EndsWith(s, suffix) ==
  /\ Len(suffix) <= Len(s)
  /\ SubSeq(s, Len(s) - Len(suffix) + 1, Len(s)) = suffix

\* sub in s (substring test)
Contains(s, sub) ==
  \E i \in 1..(Len(s) - Len(sub) + 1) : SubSeq(s, i, i + Len(sub) - 1) = sub

\* s.split(sep)[0] for a one-character separator: the text before the first sep
RECURSIVE BeforeFirst(_, _)
BeforeFirst(s, sep) ==
  IF s = << >> \/ Head(s) = sep THEN << >>
  ELSE << Head(s) >> \o BeforeFirst(Tail(s), sep)

\* s.split() : the maximal runs of non-whitespace characters, in order
RECURSIVE SplitFrom(_, _, _)
SplitFrom(s, i, cur) ==
  IF i > Len(s) THEN (IF cur = << >> THEN << >> ELSE << cur >>)
  ELSE IF s[i] \in WhiteSpace
       THEN (IF cur = << >> THEN << >> ELSE << cur >>) \o SplitFrom(s, i + 1, << >>)
       ELSE SplitFrom(s, i + 1, Append(cur, s[i]))

Split(s) == SplitFrom(s, 1, << >>)

\* s.strip()
RECURSIVE LStrip(_)
LStrip(s) ==
  IF s # << >> /\ Head(s) \in WhiteSpace THEN LStrip(Tail(s)) ELSE s

RECURSIVE RStrip(_)
RStrip(s) ==
  IF s # << >> /\ s[Len(s)] \in WhiteSpace
  THEN RStrip(SubSeq(s, 1, Len(s) - 1)) ELSE s

Strip(s) == RStrip(LStrip(s))

\* sep.join(parts)
RECURSIVE Join(_, _)
Join(sep, parts) ==
  IF parts = << >> THEN << >>
  ELSE IF Len(parts) = 1 THEN parts[1]
  ELSE parts[1] \o sep \o Join(sep, Tail(parts))

\* s.replace(old, new) for one-character old
Replace(s, old, new) == [i \in 1..Len(s) |-> IF s[i] = old THEN new ELSE s[i]]

\* CleanSpaces without the split and join: s.strip() alone
CleanSpacesStripOnly(s) == Replace(Strip(s), "\n", " ")

\* " ".join(s.strip().split()).replace("\n", " ")
CleanSpaces(s) == Replace(Join(<< " " >>, Split(Strip(s))), "\n", " ")

\* --------------------------------------------------------------- re.sub

\* \b at the gap before position i of v
IsWordAt(v, i) == i >= 1 /\ i <= Len(v) /\ v[i] \in WordChars

WordBoundary(v, i) == IsWordAt(v, i - 1) # IsWordAt(v, i)

\* \b(?<![$-])word\b matches v at position i
MatchAt(word, v, i) ==
  /\ i + Len(word) - 1 <= Len(v)
  /\ SubSeq(v, i, i + Len(word) - 1) = word
  /\ WordBoundary(v, i)
  /\ ~(i > 1 /\ v[i - 1] \in {"$", "-"})
  /\ WordBoundary(v, i + Len(word))

\* re.sub(r"\b(?<![$-]){}\b".format(word), replacement, v): every
\* non-overlapping match, scanning from the left, is replaced
RECURSIVE ReSubFrom(_, _, _, _)
ReSubFrom(word, replacement, v, i) ==
  IF i > Len(v) THEN << >>
  ELSE IF MatchAt(word, v, i)
       THEN replacement \o ReSubFrom(word, replacement, v, i + Len(word))
       ELSE << v[i] >> \o ReSubFrom(word, replacement, v, i + 1)

ReSub(word, replacement, v) == ReSubFrom(word, replacement, v, 1)

\* ------------------------------------------------------------ dictionaries

\* A Python dict, which iterates in insertion order: a sequence of
\* << key, value >> pairs with distinct keys.
Keys(d) == {d[i][1] : i \in 1..Len(d)}

Get(d, k) == d[CHOOSE i \in 1..Len(d) : d[i][1] = k][2]

\* d[k] = v : a new key goes last, an old key keeps its place
Put(d, k, v) ==
  IF k \in Keys(d)
  THEN [i \in 1..Len(d) |-> IF d[i][1] = k THEN << k, v >> ELSE d[i]]
  ELSE Append(d, << k, v >>)

\* x in list
InList(x, list) == \E i \in 1..Len(list) : list[i] = x

\* ------------------------------------------------- spelling variations

\* SubstituteAll with the substitution made in the list: each variation is
\* replaced by its substitution, none is kept
SubstituteAllInPlace(word, r, snapshot, k, variations) ==
  [i \in 1..Len(variations) |-> ReSub(word, r, variations[i])]

\* SubstituteAll with the substitution made in the source alone, the first
\* variation
SubstituteAllInSource(word, r, snapshot, k, variations) ==
  LET tmp_v == ReSub(word, r, snapshot[1])
  IN IF InList(tmp_v, variations) THEN variations ELSE Append(variations, tmp_v)

\* for v in variations[:]: tmp_v = re.sub(...); append tmp_v if it is new.
\* snapshot is variations[:], taken before the loop; k is the loop index.
RECURSIVE SubstituteAll(_, _, _, _, _)
SubstituteAll(word, r, snapshot, k, variations) ==
  IF k > Len(snapshot) THEN variations
  ELSE LET tmp_v == ReSub(word, r, snapshot[k])
       IN SubstituteAll(word, r, snapshot, k + 1,
            IF InList(tmp_v, variations) THEN variations
            ELSE Append(variations, tmp_v))

\* for r in replacement: for v in variations[:]: ...
RECURSIVE SubstituteList(_, _, _, _)
SubstituteList(word, replacement, j, variations) ==
  IF j > Len(replacement) THEN variations
  ELSE SubstituteList(word, replacement, j + 1,
         SubstituteAll(word, replacement[j], variations, 1, variations))

\* One (word, replacement) item of the spelling table; an item is a record
\* [word, is_list, replacement], replacement being a text, or a sequence of
\* texts when is_list.
ApplyItem(item, variations) ==
  IF ~item.is_list
  THEN SubstituteAll(item.word, item.replacement, variations, 1, variations)
  ELSE SubstituteList(item.word, item.replacement, 1, variations)

\* variations = [source]; for word, replacement in spelling.items(): ...
RECURSIVE VariationsFrom(_, _, _)
VariationsFrom(spelling, n, variations) ==
  IF n > Len(spelling) THEN variations
  ELSE VariationsFrom(spelling, n + 1, ApplyItem(spelling[n], variations))

Variations(source, spelling) == VariationsFrom(spelling, 1, << source >>)

\* spelling_ok: translation equals one of the variations
SpellingOk(source, translation, spelling) ==
  InList(translation, Variations(source, spelling))

\* ------------------------------------------------------- one loop iteration

KeySuffix == << ".", "k", "e", "y" >>
AccesskeySuffix == << ".", "a", "c", "c", "e", "s", "s", "k", "e", "y" >>

\* IsShortcut with id.endswith(".key") alone
IsShortcutKeyOnly(id) == EndsWith(id, KeySuffix)

\* id.endswith((".key", ".accesskey"))
IsShortcut(id) == EndsWith(id, KeySuffix) \/ EndsWith(id, AccesskeySuffix)

\* Classify with the case branch looking the id up in ignored["spelling"]
ClassifyOtherList(id, translation, reference, ignored, spelling) ==
  IF id \notin Keys(reference) THEN "obsolete"
  ELSE IF EndsWith(id, KeySuffix) \/ EndsWith(id, AccesskeySuffix) THEN "shortcut"
  ELSE IF translation = Get(reference, id) THEN "identical"
  ELSE LET t == CleanSpaces(translation)
           s == CleanSpaces(Get(reference, id))
       IN IF t = s THEN "spaces"
          ELSE IF Lower(t) = Lower(s)
               THEN (IF InList(id, ignored.spelling) THEN "used_case" ELSE "diff_case")
               ELSE IF SpellingOk(Lower(s), Lower(t), spelling) THEN "spelling_ok"
               ELSE IF InList(id, ignored.spelling) THEN "used_spelling"
               ELSE "diff_spelling"

\* What one iteration of the loop over locale_strings does with id: the
\* list it appends id to, or the reason it appends to none.
Classify(id, translation, reference, ignored, spelling) ==
  IF id \notin Keys(reference) THEN "obsolete"
  ELSE IF IsShortcut(id) THEN "shortcut"
  ELSE IF translation = Get(reference, id) THEN "identical"
  ELSE LET t == CleanSpaces(translation)
           s == CleanSpaces(Get(reference, id))
       IN IF t = s THEN "spaces"
          ELSE IF Lower(t) = Lower(s)
               THEN (IF InList(id, ignored.case) THEN "used_case" ELSE "diff_case")
               ELSE IF SpellingOk(Lower(s), Lower(t), spelling) THEN "spelling_ok"
               ELSE IF InList(id, ignored.spelling) THEN "used_spelling"
               ELSE "diff_spelling"

\* ------------------------------------------------------------- file lists

\* ord(c): the code point, which orders paths in list.sort()
Ord(c) ==
  IF c \in Range(LowerLetters)
  THEN 96 + (CHOOSE i \in 1..Len(LowerLetters) : LowerLetters[i] = c)
  ELSE IF c \in Range(UpperLetters)
  THEN 64 + (CHOOSE i \in 1..Len(UpperLetters) : UpperLetters[i] = c)
  ELSE IF c \in Digits
  THEN 47 + (CHOOSE i \in 1..10 :
               << "0","1","2","3","4","5","6","7","8","9" >>[i] = c)
  ELSE CASE c = "\t" -> 9  [] c = "\n" -> 10 [] c = " " -> 32 [] c = "$" -> 36
         [] c = "-" -> 45  [] c = "." -> 46  [] c = "/" -> 47 [] c = ":" -> 58
         [] c = "_" -> 95

\* a < b for Python strings
RECURSIVE StrLess(_, _)
StrLess(a, b) ==
  IF b = << >> THEN FALSE
  ELSE IF a = << >> THEN TRUE
  ELSE IF Head(a) = Head(b) THEN StrLess(Tail(a), Tail(b))
  ELSE Ord(Head(a)) < Ord(Head(b))

\* sorted list of a set of strings
RECURSIVE Sorted(_)
Sorted(set) ==
  IF set = {} THEN << >>
  ELSE LET least == CHOOSE a \in set : \A b \in set \ {a} : StrLess(a, b)
       IN << least >> \o Sorted(set \ {least})

supported_formats ==
  << << ".", "d", "t", "d" >>,
     << ".", "f", "t", "l" >>,
     << ".", "i", "n", "c" >>,
     << ".", "i", "n", "i" >>,
     << ".", "p", "r", "o", "p", "e", "r", "t", "i", "e", "s" >> >>

excluded_folders ==
  { << "c", "a", "l", "e", "n", "d", "a", "r" >>,
    << "c", "h", "a", "t" >>,
    << "d", "o", "m" >>,
    << "e", "d", "i", "t", "o", "r" >>,
    << "e", "x", "t", "e", "n", "s", "i", "o", "n", "s" >>,
    << "m", "a", "i", "l" >>,
    << "m", "o", "b", "i", "l", "e" >>,
    << "o", "t", "h", "e", "r", "-", "l", "i", "c", "e", "n", "s", "e", "s" >>,
    << "s", "e", "c", "u", "r", "i", "t", "y" >>,
    << "s", "u", "i", "t", "e" >> }

\* s.split(sep) for a one-character separator
RECURSIVE SplitOn(_, _)
SplitOn(s, sep) ==
  IF \A i \in 1..Len(s) : s[i] # sep THEN << s >>
  ELSE LET first == BeforeFirst(s, sep)
       IN << first >> \o SplitOn(SubSeq(s, Len(first) + 2, Len(s)), sep)

\* os.path.join(root, f)
PathJoin(root, f) == root \o << "/" >> \o f

\* The paths os.walk visits below repository_path: a tree is a set of
\* files, each with its path relative to the root; the directories named in
\* excluded_folders are pruned when they are direct children of the root.
Walked(tree) ==
  {f \in tree : LET parts == SplitOn(f.path, "/")
                IN ~(Len(parts) > 1 /\ parts[1] \in excluded_folders)}

\* extractFileList
extractFileList(tree, repository_path) ==
  Sorted({PathJoin(repository_path, f.path) : f \in
            {g \in Walked(tree) :
               \E n \in 1..Len(supported_formats) :
                  EndsWith(g.path, supported_formats[n])}})

\* getRelativePath
getRelativePath(file_name, repository_path) ==
  SubSeq(file_name, Len(repository_path) + 2, Len(file_name))

\* os.path.splitext(file_path)[1]
SplitExt(file_path) ==
  LET parts == SplitOn(file_path, "/")
      base == parts[Len(parts)]
      dots == {i \in 2..Len(base) : base[i] = "."}
  IN IF dots = {} THEN << >>
     ELSE SubSeq(base, CHOOSE i \in dots : \A j \in dots : j <= i, Len(base))

\* ------------------------------------------------------------ the parser

\* A file of a tree is [path, lines, error_at]. A line is [kind, key, value]
\* with kind "value" (key = value, or <!ENTITY key "value">), "attr"
\* (.key = value below a Fluent message) or "junk" (text the parser cannot
\* read). error_at = 0 when reading the entities raises nothing, and n > 0
\* when an exception is raised on reaching the n-th entity.

\* the attributes of the message at line i: the "attr" lines right below it
RECURSIVE AttributesFrom(_, _)
AttributesFrom(lines, i) ==
  IF i > Len(lines) \/ lines[i].kind # "attr" THEN << >>
  ELSE << [key |-> lines[i].key, raw_val |-> lines[i].value] >>
       \o AttributesFrom(lines, i + 1)

\* file_parser.parse(): the entities of the file, Junk included
RECURSIVE ParseFrom(_, _)
ParseFrom(lines, i) ==
  IF i > Len(lines) THEN << >>
  ELSE IF lines[i].kind = "value"
  THEN << [junk |-> FALSE, key |-> lines[i].key, raw_val |-> lines[i].value,
           attributes |-> AttributesFrom(lines, i + 1)] >>
       \o ParseFrom(lines, i + 1)
  ELSE IF lines[i].kind = "junk"
  THEN << [junk |-> TRUE, key |-> << >>, raw_val |-> lines[i].value,
           attributes |-> << >>] >> \o ParseFrom(lines, i + 1)
  ELSE ParseFrom(lines, i + 1)

Parse(lines) == ParseFrom(lines, 1)

\* ---------------------------------------------------------- extractStrings

FtlExtension == << ".", "f", "t", "l" >>
RegionFile == << "r", "e", "g", "i", "o", "n", ".", "p", "r", "o", "p", "e", "r", "t", "i", "e", "s" >>

\* "{}:{}".format(file_name, entity)
StringId(file_name, key) == file_name \o << ":" >> \o key

\* "{0}:{1}.{2}".format(file_name, entity, attribute)
AttrStringId(file_name, key, attribute) ==
  file_name \o << ":" >> \o key \o << "." >> \o attribute

\* for attribute in entity.attributes: strings[attr_string_id] = ...
RECURSIVE StoreAttributes(_, _, _, _)
StoreAttributes(file_name, entity, n, strings) ==
  IF n > Len(entity.attributes) THEN strings
  ELSE StoreAttributes(file_name, entity, n + 1,
         Put(strings,
             AttrStringId(file_name, entity.key, entity.attributes[n].key),
             entity.attributes[n].raw_val))

\* the body of "for entity in entities"
StoreEntity(file_name, file_extension, entity, strings) ==
  IF entity.junk THEN strings
  ELSE IF file_extension = FtlExtension
  THEN StoreAttributes(file_name, entity, 1,
         IF entity.raw_val # << >>
         THEN Put(strings, StringId(file_name, entity.key), entity.raw_val)
         ELSE strings)
  ELSE Put(strings, StringId(file_name, entity.key), entity.raw_val)

\* the entities 1..last, in order
RECURSIVE StoreEntities(_, _, _, _, _, _)
StoreEntities(file_name, file_extension, entities, n, last, strings) ==
  IF n > last THEN strings
  ELSE StoreEntities(file_name, file_extension, entities, n + 1, last,
         StoreEntity(file_name, file_extension, entities[n], strings))

\* the number of entities the loop handles before the exception, if any
Handled(file, entities) ==
  IF file.error_at = 0 \/ file.error_at > Len(entities) THEN Len(entities)
  ELSE file.error_at - 1

Raises(file, entities) ==
  file.error_at # 0 /\ file.error_at <= Len(entities)

\* One iteration of "for file_path in file_list": strings afterwards.
extractFile(file_path, repository_path, tree, strings) ==
  LET file_name == getRelativePath(file_path, repository_path)
      file == CHOOSE f \in tree : f.path = file_name
      entities == Parse(file.lines)
  IN IF EndsWith(file_name, RegionFile) THEN strings
     ELSE StoreEntities(file_name, SplitExt(file_path), entities, 1,
                        Handled(file, entities), strings)

\* whether that iteration prints "Error parsing file"
extractFileFails(file_path, repository_path, tree) ==
  LET file_name == getRelativePath(file_path, repository_path)
      file == CHOOSE f \in tree : f.path = file_name
  IN ~EndsWith(file_name, RegionFile) /\ Raises(file, Parse(file.lines))

\* ------------------------------------------------------- writing case fixes

PropertiesMark == << ".", "p", "r", "o", "p", "e", "r", "t", "i", "e", "s" >>
DtdMark == << ".", "d", "t", "d" >>
FtlMark == << ".", "f", "t", "l" >>

\* The pattern is built from the value as it is: a value with "$" in it is a
\* pattern no line matches, and a value with a line break is on no single
\* line of f.readlines().
OnOneLine(value) == "\n" \notin Range(value) /\ "$" \notin Range(value)

\* The line after re.sub(pattern, replacement, line) for one id. A line
\* that matches the pattern holds the value, so "locale_strings[id] in line"
\* is true of it.
FixLine(line, id, locale_strings, reference_strings) ==
  LET old == Get(locale_strings, id)
      string_id == SplitOn(id, ":")[2]
      matches ==
        IF Contains(id, PropertiesMark)
        THEN line.kind = "value" /\ line.key = string_id /\ line.value = old
        ELSE IF Contains(id, DtdMark)
        THEN /\ line.kind = "value"
             /\ EndsWith(line.key, string_id)
             /\ line.value = old
        ELSE IF Contains(id, FtlMark)
        THEN IF Contains(string_id, << "." >>)
             THEN /\ line.kind = "attr"
                  /\ line.key = SplitOn(string_id, ".")[2]
                  /\ line.value = old
             ELSE line.kind = "value" /\ line.key = string_id /\ line.value = old
        ELSE FALSE
  IN IF OnOneLine(old) /\ matches
     THEN [line EXCEPT !.value = Get(reference_strings, id)]
     ELSE line

\* for id in ids: ... line = re.sub(...)
RECURSIVE FixLineAll(_, _, _, _, _)
FixLineAll(line, ids, n, locale_strings, reference_strings) ==
  IF n > Len(ids) THEN line
  ELSE FixLineAll(FixLine(line, ids[n], locale_strings, reference_strings),
                  ids, n + 1, locale_strings, reference_strings)

\* updated_content
FixLines(lines, ids, locale_strings, reference_strings) ==
  [i \in 1..Len(lines) |->
     FixLineAll(lines[i], ids, 1, locale_strings, reference_strings)]

\* fixes: filename -> the ids of differences["case"] in that file
RECURSIVE GroupByFile(_, _, _)
GroupByFile(ids, n, fixes) ==
  IF n > Len(ids) THEN fixes
  ELSE LET filename == SplitOn(ids[n], ":")[1]
       IN GroupByFile(ids, n + 1,
            IF filename \in Keys(fixes)
            THEN Put(fixes, filename, Append(Get(fixes, filename), ids[n]))
            ELSE Put(fixes, filename, << ids[n] >>))

\* ------------------------------------------------------------------ inputs

MaxRuns == 2

ReferencePath == << "/", "r", "e", "f" >>
LocalePath == << "/", "l", "o", "c" >>

Line(kind, key, value) == [kind |-> kind, key |-> key, value |-> value]

File(path, lines, error_at) ==
  [path |-> path, lines |-> lines, error_at |-> error_at]

\* the file names of the trees
FtlFile == << "a", ".", "f", "t", "l" >>
PropertiesFile == << "b", ".", "p", "r", "o", "p", "e", "r", "t", "i", "e", "s" >>
RegionPropertiesFile == << "r", "e", "g", "i", "o", "n", ".", "p", "r", "o", "p", "e", "r", "t", "i", "e", "s" >>
MailFile == << "m", "a", "i", "l", "/", "c", ".", "d", "t", "d" >>
TextFile == << "e", ".", "t", "x", "t" >>

\* the reference strings, as files
ReferenceFtl ==
  << Line("value", << "t" >>, << "A", "b", " ", "c" >>),
     Line("attr", << "a", "c", "c", "e", "s", "s", "k", "e", "y" >>, << "A" >>),
     Line("value", << "u" >>, << >>),
     Line("attr", << "l", "a", "b", "e", "l" >>, << "c", " ", "b" >>) >>

ReferenceProperties ==
  << Line("value", << "o", ".", "k", "e", "y" >>, << "B" >>),
     Line("value", << "p" >>, << "b", " ", "c" >>),
     Line("value", << "q" >>, << "c" >>) >>

ReferenceTrees ==
  { { File(FtlFile, ReferenceFtl, 0),
      File(PropertiesFile, ReferenceProperties, e),
      File(RegionPropertiesFile, << Line("value", << "r" >>, << "b" >>) >>, 0),
      File(MailFile, << Line("value", << "m" >>, << "b" >>) >>, 0),
      File(TextFile, << Line("value", << "n" >>, << "b" >>) >>, 0) }
    : e \in {0, 2} }

\* the contents a localizer may have given the two files
LocaleFtl ==
  { ReferenceFtl,
    << Line("value", << "t" >>, << "a", "b", " ", "c" >>),
       Line("attr", << "a", "c", "c", "e", "s", "s", "k", "e", "y" >>, << "a" >>),
       Line("value", << "u" >>, << >>),
       Line("attr", << "l", "a", "b", "e", "l" >>, << "C", " ", "b" >>) >>,
    << Line("value", << "t" >>, << "A", "d", " ", "e" >>),
       Line("attr", << "a", "c", "c", "e", "s", "s", "k", "e", "y" >>, << "x" >>),
       Line("junk", << >>, << "a", "b", " ", "c" >>),
       Line("value", << "u" >>, << >>),
       Line("attr", << "l", "a", "b", "e", "l" >>, << "c", " ", " ", "b" >>),
       Line("value", << "v" >>, << "n" >>) >>,
    << Line("value", << "t" >>, << "A", "b", " ", "x" >>),
       Line("attr", << "a", "c", "c", "e", "s", "s", "k", "e", "y" >>, << "A" >>),
       Line("value", << "u" >>, << >>),
       Line("attr", << "l", "a", "b", "e", "l" >>, << "c", " ", "B" >>) >> }

LocaleProperties ==
  { << Line("value", << "o", ".", "k", "e", "y" >>, << "b" >>),
       Line("value", << "p" >>, << "b", " ", "x" >>),
       Line("value", << "q" >>, << "x" >>) >>,
    << Line("value", << "o", ".", "k", "e", "y" >>, << "B" >>),
       Line("value", << "p" >>, << " ", "b", "\n", "c", " " >>),
       Line("value", << "q" >>, << "C" >>) >>,
    << Line("value", << "o", ".", "k", "e", "y" >>, << "x" >>),
       Line("value", << "p" >>, << "B", " ", "c" >>),
       Line("value", << "q" >>, << "f" >>) >> }

\* where reading the entities of a locale file may raise
LocaleErrors == { << 0, 0 >>, << 1, 0 >>, << 2, 0 >>, << 0, 2 >> }

LocaleTrees ==
  { { File(FtlFile, ftl, e[1]),
      File(PropertiesFile, properties, e[2]),
      File(RegionPropertiesFile, << Line("value", << "r" >>, << "B" >>) >>, 0),
      File(MailFile, << Line("value", << "m" >>, << "B" >>) >>, 0),
      File(TextFile, << Line("value", << "n" >>, << "B" >>) >>, 0) }
    : ftl \in LocaleFtl, properties \in LocaleProperties, e \in LocaleErrors }

\* exclusions/<locale>.json
ExclusionFiles ==
  { [case |-> c, spelling |-> sp] :
      c \in { << >>,
              << << "a", ".", "f", "t", "l", ":", "t" >>, << "b", ".", "p", "r", "o", "p", "e", "r", "t", "i", "e", "s", ":", "o", ".", "k", "e", "y" >>, << "a", ".", "f", "t", "l", ":", "g", "o", "n", "e" >> >>,
              << << "b", ".", "p", "r", "o", "p", "e", "r", "t", "i", "e", "s", ":", "q" >>, << "a", ".", "f", "t", "l", ":", "t", ".", "a", "c", "c", "e", "s", "s", "k", "e", "y" >> >> },
      sp \in { << >>,
               << << "a", ".", "f", "t", "l", ":", "t" >>, << "b", ".", "p", "r", "o", "p", "e", "r", "t", "i", "e", "s", ":", "q" >>, << "b", ".", "p", "r", "o", "p", "e", "r", "t", "i", "e", "s", ":", "o", ".", "k", "e", "y" >> >> } }

Item(word, is_list, replacement) ==
  [word |-> word, is_list |-> is_list, replacement |-> replacement]

\* spelling/<locale>.json. The words and replacements of a table are
\* literal lower-case words: the table is applied to lower-cased text and
\* compared with the lower-cased translation.
SpellingFiles ==
  { << >>,
    << Item(<< "b" >>, FALSE, << "d" >>), Item(<< "c" >>, TRUE, << << "e" >>, << "f" >> >>) >> }

\* --------------------------------------------------------------------- state

VARIABLES
  reference_tree,    \* the reference repository on disk
  locale_tree,       \* the locale's repository on disk
  exclusions_file,   \* exclusions/<locale>.json
  spelling_file,     \* spelling/<locale>.json
  output_file,       \* output/<locale>.json
  pc,                \* where the running invocation is, "idle" between runs
  run,               \* the number of invocations started
  write,             \* args.write
  file_list,         \* extractStrings: the files still to read
  fi,                \* extractStrings: index of the next file
  errors,            \* the files reported with "Error parsing file"
  reference_strings, \* self.reference_strings
  locale_strings,    \* compareLocale: locale_strings
  ignored_strings,   \* compareLocale: ignored_strings
  spelling,          \* compareLocale: spelling
  differences,       \* compareLocale: differences
  used_exceptions,   \* compareLocale: used_exceptions
  ci,                \* index of the next item of locale_strings.items()
  fixes,             \* compareLocale: fixes
  xi,                \* index of the next item of fixes.items()
  opened,            \* the locale files opened with mode "w", in order
  previous           \* what the previous run read and wrote, if one ended

vars ==
  << reference_tree, locale_tree, exclusions_file, spelling_file, output_file,
     pc, run, write, file_list, fi, errors, reference_strings, locale_strings,
     ignored_strings, spelling, differences, used_exceptions, ci, fixes, xi,
     opened, previous >>

disk == << reference_tree, locale_tree, exclusions_file, spelling_file, output_file >>

NoLists == [case |-> << >>, spelling |-> << >>]

NoPrevious ==
  [ended |-> FALSE, reference_strings |-> << >>, locale_strings |-> << >>,
   spelling |-> << >>, ignored_strings |-> NoLists, differences |-> NoLists,
   used_exceptions |-> NoLists]

Init ==
  /\ reference_tree \in ReferenceTrees
  /\ locale_tree \in LocaleTrees
  /\ exclusions_file \in ExclusionFiles
  /\ spelling_file \in SpellingFiles
  /\ output_file = NoLists
  /\ pc = "idle"
  /\ run = 0
  /\ write = FALSE
  /\ file_list = << >>
  /\ fi = 1
  /\ errors = << >>
  /\ reference_strings = << >>
  /\ locale_strings = << >>
  /\ ignored_strings = NoLists
  /\ spelling = << >>
  /\ differences = NoLists
  /\ used_exceptions = NoLists
  /\ ci = 1
  /\ fixes = << >>
  /\ xi = 1
  /\ opened = << >>
  /\ previous = NoPrevious

\* ------------------------------------------------------------------- actions

\* main, CheckStrings.__init__ up to the loop of extractStrings
Main(w) ==
  /\ pc = "idle"
  /\ run < MaxRuns
  /\ run' = run + 1
  /\ write' = w
  /\ reference_strings' = << >>
  /\ locale_strings' = << >>
  /\ file_list' = extractFileList(reference_tree, ReferencePath)
  /\ fi' = 1
  /\ errors' = << >>
  /\ opened' = << >>
  /\ pc' = "reference"
  /\ UNCHANGED << disk, ignored_strings, spelling, differences,
                  used_exceptions, ci, fixes, xi, previous >>

\* one file of extractStrings(reference_path, self.reference_strings)
ExtractReference ==
  /\ pc = "reference"
  /\ fi <= Len(file_list)
  /\ reference_strings' =
       extractFile(file_list[fi], ReferencePath, reference_tree, reference_strings)
  /\ errors' =
       IF extractFileFails(file_list[fi], ReferencePath, reference_tree)
       THEN Append(errors, file_list[fi]) ELSE errors
  /\ fi' = fi + 1
  /\ UNCHANGED << disk, pc, run, write, file_list, locale_strings,
                  ignored_strings, spelling, differences, used_exceptions,
                  ci, fixes, xi, opened, previous >>

\* compareLocale up to the loop of extractStrings
CompareLocale ==
  /\ pc = "reference"
  /\ fi > Len(file_list)
  /\ locale_strings' = << >>
  /\ file_list' = extractFileList(locale_tree, LocalePath)
  /\ fi' = 1
  /\ pc' = "locale"
  /\ UNCHANGED << disk, run, write, errors, reference_strings,
                  ignored_strings, spelling, differences, used_exceptions,
                  ci, fixes, xi, opened, previous >>

\* one file of extractStrings(repository_path, locale_strings)
ExtractLocale ==
  /\ pc = "locale"
  /\ fi <= Len(file_list)
  /\ locale_strings' =
       extractFile(file_list[fi], LocalePath, locale_tree, locale_strings)
  /\ errors' =
       IF extractFileFails(file_list[fi], LocalePath, locale_tree)
       THEN Append(errors, file_list[fi]) ELSE errors
  /\ fi' = fi + 1
  /\ UNCHANGED << disk, pc, run, write, file_list, reference_strings,
                  ignored_strings, spelling, differences, used_exceptions,
                  ci, fixes, xi, opened, previous >>

\* loading the exclusions and the spelling changes, the empty lists
LoadConfiguration ==
  /\ pc = "locale"
  /\ fi > Len(file_list)
  /\ ignored_strings' = exclusions_file
  /\ spelling' = spelling_file
  /\ differences' = NoLists
  /\ used_exceptions' = NoLists
  /\ ci' = 1
  /\ pc' = "compare"
  /\ UNCHANGED << disk, run, write, file_list, fi, errors, reference_strings,
                  locale_strings, fixes, xi, opened, previous >>

\* Differences with the id reported although it is excluded
DifferencesAlso(outcome, id, lists) ==
  IF outcome \in {"diff_case", "used_case"}
  THEN [lists EXCEPT !.case = Append(@, id)]
  ELSE IF outcome \in {"diff_spelling", "used_spelling"}
  THEN [lists EXCEPT !.spelling = Append(@, id)]
  ELSE lists

\* differences after the iteration for id
Differences(outcome, id, lists) ==
  IF outcome = "diff_case"
  THEN [lists EXCEPT !.case = Append(@, id)]
  ELSE IF outcome = "diff_spelling"
  THEN [lists EXCEPT !.spelling = Append(@, id)]
  ELSE lists

\* UsedExceptions without the append of an excluded case difference
UsedExceptionsSpellingOnly(outcome, id, lists) ==
  IF outcome = "used_spelling"
  THEN [lists EXCEPT !.spelling = Append(@, id)]
  ELSE lists

\* used_exceptions after the iteration for id
UsedExceptions(outcome, id, lists) ==
  IF outcome = "used_case"
  THEN [lists EXCEPT !.case = Append(@, id)]
  ELSE IF outcome = "used_spelling"
  THEN [lists EXCEPT !.spelling = Append(@, id)]
  ELSE lists

\* one iteration of "for id, translation in locale_strings.items()"
CompareString ==
  /\ pc = "compare"
  /\ ci <= Len(locale_strings)
  /\ LET id == locale_strings[ci][1]
         translation == locale_strings[ci][2]
         outcome == Classify(id, translation, reference_strings,
                             ignored_strings, spelling)
     IN /\ differences' = Differences(outcome, id, differences)
        /\ used_exceptions' = UsedExceptions(outcome, id, used_exceptions)
  /\ ci' = ci + 1
  /\ UNCHANGED << disk, pc, run, write, file_list, fi, errors,
                  reference_strings, locale_strings, ignored_strings,
                  spelling, fixes, xi, opened, previous >>

\* PlannedFixes without the test of write
PlannedFixesAlways(w, case_differences) ==
  GroupByFile(case_differences, 1, << >>)

\* the fixes to write: none unless write is set
PlannedFixes(w, case_differences) ==
  IF w THEN GroupByFile(case_differences, 1, << >>) ELSE << >>

\* "if write:" and the grouping of the ids by file
PlanFixes ==
  /\ pc = "compare"
  /\ ci > Len(locale_strings)
  /\ fixes' = PlannedFixes(write, differences.case)
  /\ xi' = 1
  /\ pc' = "fix"
  /\ UNCHANGED << disk, run, write, file_list, fi, errors, reference_strings,
                  locale_strings, ignored_strings, spelling, differences,
                  used_exceptions, ci, opened, previous >>

\* one iteration of "for filename, ids in fixes.items()"
FixFile ==
  /\ pc = "fix"
  /\ xi <= Len(fixes)
  /\ LET filename == fixes[xi][1]
         ids == fixes[xi][2]
         file == CHOOSE f \in locale_tree : f.path = filename
         updated == [file EXCEPT !.lines =
                       FixLines(@, ids, locale_strings, reference_strings)]
     IN /\ locale_tree' = (locale_tree \ {file}) \cup {updated}
        /\ opened' = Append(opened, PathJoin(LocalePath, filename))
  /\ xi' = xi + 1
  /\ UNCHANGED << reference_tree, exclusions_file, spelling_file, output_file,
                  pc, run, write, file_list, fi, errors, reference_strings,
                  locale_strings, ignored_strings, spelling, differences,
                  used_exceptions, ci, fixes, previous >>

\* Dump with the loaded exclusions written back in place of the used ones
DumpLoaded ==
  /\ pc = "fix"
  /\ xi > Len(fixes)
  /\ output_file' = differences
  /\ exclusions_file' = ignored_strings
  /\ previous' = [ended |-> TRUE,
                  reference_strings |-> reference_strings,
                  locale_strings |-> locale_strings,
                  spelling |-> spelling,
                  ignored_strings |-> ignored_strings,
                  differences |-> differences,
                  used_exceptions |-> used_exceptions]
  /\ pc' = "idle"
  /\ UNCHANGED << reference_tree, locale_tree, spelling_file, run, write,
                  file_list, fi, errors, reference_strings, locale_strings,
                  ignored_strings, spelling, differences, used_exceptions,
                  ci, fixes, xi, opened >>

\* json.dump(differences, ...) and json.dump(used_exceptions, ...)
Dump ==
  /\ pc = "fix"
  /\ xi > Len(fixes)
  /\ output_file' = differences
  /\ exclusions_file' = used_exceptions
  /\ previous' = [ended |-> TRUE,
                  reference_strings |-> reference_strings,
                  locale_strings |-> locale_strings,
                  spelling |-> spelling,
                  ignored_strings |-> ignored_strings,
                  differences |-> differences,
                  used_exceptions |-> used_exceptions]
  /\ pc' = "idle"
  /\ UNCHANGED << reference_tree, locale_tree, spelling_file, run, write,
                  file_list, fi, errors, reference_strings, locale_strings,
                  ignored_strings, spelling, differences, used_exceptions,
                  ci, fixes, xi, opened >>

Next ==
  \/ \E w \in BOOLEAN : Main(w)
  \/ ExtractReference
  \/ CompareLocale
  \/ ExtractLocale
  \/ LoadConfiguration
  \/ CompareString
  \/ PlanFixes
  \/ FixFile
  \/ Dump

Spec == Init /\ [][Next]_vars

\* ------------------------------------------- the loop on generated strings

MaxTextLen == 4
MaxSourceLen == 3
MaxItems == 2

\* every text of at most n of the characters
TextsOver(chars, n) == UNION {[1..k -> chars] : k \in 0..n}

\* the one identifier of the generated catalogs
TheId == << "a", ".", "f", "t", "l", ":", "t" >>

ListsOfTheId == [case |-> << TheId >>, spelling |-> << TheId >>]

\* The state at the top of the comparison loop of a run whose catalogs hold
\* TheId alone, with the given values.
AtLoop(source, translation, ignored, table) ==
  /\ reference_tree = {}
  /\ locale_tree = {}
  /\ exclusions_file = ignored
  /\ spelling_file = table
  /\ output_file = NoLists
  /\ pc = "compare"
  /\ run = 1
  /\ write = FALSE
  /\ file_list = << >>
  /\ fi = 1
  /\ errors = << >>
  /\ reference_strings = << << TheId, source >> >>
  /\ locale_strings = << << TheId, translation >> >>
  /\ ignored_strings = ignored
  /\ spelling = table
  /\ differences = NoLists
  /\ used_exceptions = NoLists
  /\ ci = 1
  /\ fixes = << >>
  /\ xi = 1
  /\ opened = << >>
  /\ previous = NoPrevious

SpaceChars == {"a", " ", "\n"}

\* values that differ in their white space, or in more
InitSpaces ==
  \E source \in TextsOver(SpaceChars, MaxTextLen),
     translation \in TextsOver(SpaceChars, MaxTextLen),
     ignored \in {NoLists, ListsOfTheId},
     table \in SpellingFiles :
       AtLoop(source, translation, ignored, table)

NextSpaces == CompareString

SpecSpaces == InitSpaces /\ [][NextSpaces]_vars

SourceChars == {"a", "b", " ", "-"}

\* the items a spelling table is made of: one replacement or a list, a
\* replacement that is another word of the pool, a word that holds another
\* word of the pool; all literal lower-case words
ItemPool ==
  { Item(<< "a" >>, FALSE, << "c" >>),
    Item(<< "a" >>, FALSE, << "b" >>),
    Item(<< "b" >>, FALSE, << "d" >>),
    Item(<< "b" >>, TRUE, << << "e" >>, << "a" >> >>),
    Item(<< "a", "b" >>, FALSE, << "c" >>) }

\* a dict has each key once
DistinctWords(table) ==
  \A m, n \in 1..Len(table) : table[m].word = table[n].word => m = n

\* the spelling tables of at most n items, in every order
Tables(n) ==
  {table \in UNION {[1..k -> ItemPool] : k \in 0..n} : DistinctWords(table)}

\* the replacements an item allows
Replacements(item) ==
  IF item.is_list THEN item.replacement ELSE << item.replacement >>

\* A choice of spelling changes: for each item of the table 0, the word is
\* left as it is, or the number of the replacement taken.
Picks(table) ==
  {picks \in [1..Len(table) -> 0..2] :
     \A n \in 1..Len(table) : picks[n] <= Len(Replacements(table[n]))}

\* The text with the chosen changes made: each whole-word occurrence of a
\* chosen word in the text, as it stands, gives way to the replacement.
RECURSIVE RespellFrom(_, _, _, _)
RespellFrom(text, table, picks, i) ==
  IF i > Len(text) THEN << >>
  ELSE LET hits == {n \in 1..Len(table) :
                      picks[n] # 0 /\ MatchAt(table[n].word, text, i)}
       IN IF hits = {} THEN << text[i] >> \o RespellFrom(text, table, picks, i + 1)
          ELSE LET n == CHOOSE h \in hits : TRUE
               IN Replacements(table[n])[picks[n]]
                  \o RespellFrom(text, table, picks, i + Len(table[n].word))

Respell(text, table, picks) == RespellFrom(text, table, picks, 1)

\* the text with one character typed differently
Retyped(text) ==
  {[text EXCEPT ![i] = c] : i \in 1..Len(text), c \in {"c", "B"}}

\* what a localizer may have made of the source under the table
Translations(source, table) ==
  {Respell(source, table, picks) : picks \in Picks(table)} \cup Retyped(source)

\* values that differ in their spelling, or in more
InitSpelling ==
  \E source \in TextsOver(SourceChars, MaxSourceLen),
     table \in Tables(MaxItems),
     ignored \in {NoLists, ListsOfTheId} :
       \E translation \in Translations(source, table) :
         AtLoop(source, translation, ignored, table)

NextSpelling == CompareString

SpecSpelling == InitSpelling /\ [][NextSpelling]_vars

\* ------------------------------------------------------------------- claims

\* the comparison loop of the current run has handled every string
Compared == pc = "fix" \/ (pc = "idle" /\ run > 0)

\* the run has ended and written its two files
Ended == pc = "idle" /\ run > 0

InBoth(id) == id \in Keys(reference_strings) /\ id \in Keys(locale_strings)

\* id ends in .key or .accesskey
ShortcutId(id) ==
  \/ EndsWith(id, << ".", "k", "e", "y" >>)
  \/ EndsWith(id, << ".", "a", "c", "c", "e", "s", "s", "k", "e", "y" >>)

\* The words of a text: its maximal runs of characters that are not white
\* space, from left to right.
WordRuns(s) ==
  {r \in (1..Len(s)) \X (1..Len(s)) :
     /\ r[1] <= r[2]
     /\ \A i \in r[1]..r[2] : s[i] \notin {" ", "\n", "\t"}
     /\ (r[1] = 1 \/ s[r[1] - 1] \in {" ", "\n", "\t"})
     /\ (r[2] = Len(s) \/ s[r[2] + 1] \in {" ", "\n", "\t"})}

WordsOf(s) ==
  LET runs == WordRuns(s)
      nth(n) == CHOOSE r \in runs : Cardinality({q \in runs : q[1] < r[1]}) = n - 1
  IN [n \in 1..Cardinality(runs) |-> SubSeq(s, nth(n)[1], nth(n)[2])]

\* two texts that differ at most in white space
SameWords(s, t) == WordsOf(s) = WordsOf(t)

\* two texts with the same words up to letter case, and not the same words
CaseOnly(s, t) ==
  /\ ~SameWords(s, t)
  /\ Len(WordsOf(s)) = Len(WordsOf(t))
  /\ \A n \in 1..Len(WordsOf(s)) : Lower(WordsOf(s)[n]) = Lower(WordsOf(t)[n])

CaseOnlyId(id) ==
  InBoth(id) /\ CaseOnly(Get(reference_strings, id), Get(locale_strings, id))

ExactlyOne(a, b) == (a \/ b) /\ ~(a /\ b)

\* C1 as stated: after the comparison, every identifier of both catalogs
\* whose values differ only in letter case is in exactly one of
\* differences["case"] and used_exceptions["case"].
C1_AsStated ==
  Compared =>
    \A id \in Keys(locale_strings) :
      CaseOnlyId(id) =>
        ExactlyOne(InList(id, differences.case), InList(id, used_exceptions.case))

\* C1 amended: the same for every identifier that does not end in .key or
\* .accesskey; an identifier that does is in neither list.
C1_CaseExactlyOne ==
  Compared =>
    \A id \in Keys(locale_strings) :
      CaseOnlyId(id) =>
        IF ShortcutId(id)
        THEN ~InList(id, differences.case) /\ ~InList(id, used_exceptions.case)
        ELSE ExactlyOne(InList(id, differences.case),
                        InList(id, used_exceptions.case))

\* a run that reported one case-only identifier and suppressed another
C1_Witness ==
  /\ Compared
  /\ \E id \in Keys(locale_strings) :
       CaseOnlyId(id) /\ ~ShortcutId(id) /\ InList(id, differences.case)
  /\ \E id \in Keys(locale_strings) :
       CaseOnlyId(id) /\ ~ShortcutId(id) /\ InList(id, used_exceptions.case)
  /\ \E id \in Keys(locale_strings) : CaseOnlyId(id) /\ ShortcutId(id)

\* the run reads what the previous run read, and the exclusions it wrote
SameInputs ==
  /\ previous.ended
  /\ reference_strings = previous.reference_strings
  /\ locale_strings = previous.locale_strings
  /\ spelling = previous.spelling
  /\ ignored_strings = previous.used_exceptions

\* C2: a run on the catalogs and spelling table of the previous run, with
\* the exclusions the previous run wrote, ends with the report and the
\* exclusions the previous run wrote.
C2_RoundTrip ==
  (pc = "fix" /\ xi > Len(fixes) /\ SameInputs) =>
    /\ differences = output_file
    /\ differences = previous.differences
    /\ used_exceptions = exclusions_file
    /\ used_exceptions = previous.used_exceptions

\* a second run on the same inputs, with something reported and something
\* suppressed, whose first run dropped an exclusion
C2_Witness ==
  /\ pc = "fix" /\ xi > Len(fixes) /\ SameInputs
  /\ differences.case # << >>
  /\ differences.spelling # << >>
  /\ used_exceptions.case # << >>
  /\ previous.ignored_strings # previous.used_exceptions

\* the identifiers of the category that mismatch in this run
Mismatches(category) ==
  {id \in Keys(locale_strings) :
     /\ InBoth(id)
     /\ ~ShortcutId(id)
     /\ ~SameWords(Get(reference_strings, id), Get(locale_strings, id))
     /\ IF category = "case" THEN CaseOnlyId(id)
        ELSE /\ ~CaseOnlyId(id)
             /\ ~SpellingOk(Lower(CleanSpaces(Get(reference_strings, id))),
                            Lower(CleanSpaces(Get(locale_strings, id))),
                            spelling)}

\* C4: the step that writes the exclusions replaces the file by the loaded
\* exclusions that a mismatch of their category matched in this run, so a
\* subset of what the file held; no other step changes the file.
C4_ExclusionsPruned ==
  [][ IF pc = "fix" /\ pc' = "idle"
      THEN /\ Range(exclusions_file'.case) =
                Range(exclusions_file.case) \cap Mismatches("case")
           /\ Range(exclusions_file'.spelling) =
                Range(exclusions_file.spelling) \cap Mismatches("spelling")
           /\ ignored_strings = exclusions_file
      ELSE exclusions_file' = exclusions_file ]_vars

\* a run has dropped an exclusion whose identifier is in no catalog, one
\* whose identifier does not mismatch, and kept one
C4_Witness ==
  /\ Ended
  /\ \E id \in Range(previous.ignored_strings.case) :
       ~InBoth(id) /\ ~InList(id, exclusions_file.case)
  /\ \E id \in Range(previous.ignored_strings.spelling) :
       InBoth(id) /\ ~InList(id, exclusions_file.spelling)
  /\ exclusions_file.case # << >>

Listed(lists) == Range(lists.case) \cup Range(lists.spelling)

\* C5: no identifier ending in .key or .accesskey is in the report or in the
\* used exclusions, in memory or in the files a run has written.
C5_ShortcutsNowhere ==
  /\ \A id \in Listed(differences) \cup Listed(used_exceptions) : ~ShortcutId(id)
  /\ Ended =>
       \A id \in Listed(output_file) \cup Listed(exclusions_file) : ~ShortcutId(id)

\* a run has ended that compared an excluded .key identifier and an excluded
\* .accesskey identifier whose values differ
C5_Witness ==
  /\ Ended
  /\ \E id \in Range(previous.ignored_strings.case) :
       /\ EndsWith(id, << ".", "k", "e", "y" >>)
       /\ InBoth(id)
       /\ Get(reference_strings, id) # Get(locale_strings, id)
  /\ \E id \in Keys(locale_strings) :
       /\ EndsWith(id, << ".", "a", "c", "c", "e", "s", "s", "k", "e", "y" >>)
       /\ InBoth(id)
       /\ Get(reference_strings, id) # Get(locale_strings, id)

\* C7: in neither category is an identifier both reported and suppressed.
C7_ReportedOrSuppressed ==
  /\ Range(differences.case) \cap Range(used_exceptions.case) = {}
  /\ Range(differences.spelling) \cap Range(used_exceptions.spelling) = {}

\* both lists of both categories are in use
C7_Witness ==
  /\ differences.case # << >> /\ used_exceptions.case # << >>
  /\ differences.spelling # << >> /\ used_exceptions.spelling # << >>

\* the identifiers a catalog has from the file at file_path
FromFile(strings, file_path, repository_path) ==
  {id \in Keys(strings) :
     BeforeFirst(id, ":") = getRelativePath(file_path, repository_path)}

\* file_path is below repository_path
IsUnder(file_path, repository_path) ==
  SubSeq(file_path, 1, Len(repository_path) + 1) = repository_path \o << "/" >>

\* C8 as stated: once the files of both repositories are read, a file
\* reported with "Error parsing file" has no entry in the catalog of its
\* repository.
C8_FailedFileHasNoEntries ==
  pc = "compare" =>
    \A n \in 1..Len(errors) :
      /\ IsUnder(errors[n], LocalePath) =>
           FromFile(locale_strings, errors[n], LocalePath) = {}
      /\ IsUnder(errors[n], ReferencePath) =>
           FromFile(reference_strings, errors[n], ReferencePath) = {}

\* the files of a run opened for writing, as the request and the report say
FilesToFix ==
  IF write
  THEN {PathJoin(LocalePath, BeforeFirst(id, ":")) : id \in Range(differences.case)}
  ELSE {}

\* C10: a run opens for writing exactly the files of the identifiers in
\* differences["case"] when write is set and none when it is not, each once,
\* and the report has the case differences either way.
C10_FilesWritten ==
  /\ Ended =>
       /\ Range(opened) = FilesToFix
       /\ output_file = differences
  /\ pc = "fix" => Range(opened) \subseteq FilesToFix
  /\ \A m, n \in 1..Len(opened) : opened[m] = opened[n] => m = n

\* a run with write set that rewrote one file for two identifiers and left
\* alone a file whose case difference is excluded
C10_Witness ==
  /\ Ended /\ write
  /\ Len(opened) = 1
  /\ Len(differences.case) = 2
  /\ \E id \in Range(used_exceptions.case) :
       PathJoin(LocalePath, BeforeFirst(id, ":")) \notin Range(opened)

\* a run without write that reported case differences
C10_WitnessNoWrite ==
  Ended /\ ~write /\ differences.case # << >> /\ opened = << >>

\* the comparison of the generated catalogs has handled TheId
Judged == pc = "compare" /\ ci = 2

Recorded(id) ==
  id \in Listed(differences) \cup Listed(used_exceptions)

\* C6: an identifier of both catalogs whose values are the same, or differ
\* only in white space at the ends, in the width of white space between the
\* words or in line breaks for spaces, is in no report and no used exclusion
\* list, whatever the exclusions and the spelling table.
C6_SpacesAreNoMismatch ==
  Judged =>
    \A id \in Keys(locale_strings) :
      (InBoth(id) /\ SameWords(Get(reference_strings, id), Get(locale_strings, id)))
        => ~Recorded(id)

\* an excluded identifier whose values differ in the white space between two
\* words has been compared
C6_Witness ==
  /\ Judged
  /\ InList(TheId, ignored_strings.case)
  /\ Get(reference_strings, TheId) # Get(locale_strings, TheId)
  /\ Len(WordsOf(Get(reference_strings, TheId))) = 2
  /\ Len(Get(reference_strings, TheId)) = 3
  /\ Len(Get(locale_strings, TheId)) = 4
  /\ SameWords(Get(reference_strings, TheId), Get(locale_strings, TheId))
  /\ ~Recorded(TheId)

\* spelling with item put before its item number n + 1
InsertItem(table, n, item) ==
  SubSeq(table, 1, n) \o << item >> \o SubSeq(table, n + 1, Len(table))

\* the tables that are the table with one more word
OneMoreWord(table) ==
  {InsertItem(table, n, item) :
     n \in 0..Len(table),
     item \in {i \in ItemPool : \A m \in 1..Len(table) : table[m].word # i.word}}

\* the outcome of the comparison of TheId under another spelling table
OutcomeUnder(table) ==
  Classify(TheId, Get(locale_strings, TheId), reference_strings,
           ignored_strings, table)

\* C3: with one more word in the spelling table, at any place, an identifier
\* is a spelling difference, reported or suppressed, only if it is one
\* without the word.
C3_SpellingMonotonic ==
  Judged =>
    \A table \in OneMoreWord(spelling) :
      OutcomeUnder(table) \in {"diff_spelling", "used_spelling"}
        => InList(TheId, differences.spelling)
           \/ InList(TheId, used_exceptions.spelling)

\* a translation the table accepts through one of its changes, and a table
\* with one more word in front that changes the source
C3_Witness ==
  /\ Judged
  /\ ~Recorded(TheId)
  /\ Lower(CleanSpaces(Get(reference_strings, TheId)))
       # Lower(CleanSpaces(Get(locale_strings, TheId)))
  /\ \E item \in ItemPool :
       /\ InsertItem(spelling, 0, item) \in OneMoreWord(spelling)
       /\ Len(Variations(Lower(CleanSpaces(Get(reference_strings, TheId))),
                         << item >>)) > 1

\* the number of whole-word occurrences of word in text
Occurrences(word, text) ==
  Cardinality({i \in 1..Len(text) : MatchAt(word, text, i)})

\* the choices that make no change the choice picks does not make
Within(table, picks) ==
  {part \in Picks(table) : \A n \in 1..Len(table) : part[n] \in {0, picks[n]}}

\* The chosen changes are independent on the text: making one of them, on
\* the text with any of the others made, leaves the number of occurrences
\* of every other word of the table as it is.
Independent(text, table, picks) ==
  \A n \in 1..Len(table) :
    picks[n] # 0 =>
      \A part \in Within(table, picks) :
        part[n] = 0 =>
          LET before == Respell(text, table, part)
              after == ReSub(table[n].word, Replacements(table[n])[picks[n]], before)
          IN \A m \in 1..Len(table) :
               m # n => Occurrences(table[m].word, after)
                          = Occurrences(table[m].word, before)

\* C9: when the reference text is lower case with single spaces and the
\* translation is that text with independent spelling changes of the table
\* made, the identifier is in no list; the tables come in every order.
C9_ChangesAccumulate ==
  Judged =>
    LET source == Get(reference_strings, TheId)
    IN source = Lower(CleanSpaces(source)) =>
         \A picks \in Picks(spelling) :
           ( /\ Get(locale_strings, TheId) = Respell(source, spelling, picks)
             /\ Independent(source, spelling, picks) )
             => ~Recorded(TheId)

\* an excluded translation with two independent changes made, each of which
\* changes the text
C9_Witness ==
  /\ Judged
  /\ InList(TheId, ignored_strings.spelling)
  /\ ~Recorded(TheId)
  /\ LET source == Get(reference_strings, TheId)
     IN /\ source = Lower(CleanSpaces(source))
        /\ \E picks \in Picks(spelling) :
             /\ Len(spelling) = 2
             /\ picks[1] # 0 /\ picks[2] # 0
             /\ Get(locale_strings, TheId) = Respell(source, spelling, picks)
             /\ Independent(source, spelling, picks)
             /\ \A n \in 1..2 :
                  Occurrences(spelling[n].word, source) > 0

====
